---- MODULE Spec2Model ----
(***************************************************************************)
(* A model of the document ingestion / retrieval scripts of ask-ai:        *)
(*   - chunk_text (src/nick.py, src/final.py), the word-window chunker;    *)
(*   - add_document_from_file, add_document_from_text, reindex_document,   *)
(*     the writers of the SQLite store (documents and chunks tables);      *)
(*   - retrieve_chunks (src/sad.py), ranking + neighbour expansion.        *)
(* Texts and chunks are sequences of one-character strings.                *)
(***************************************************************************)
EXTENDS Integers, Sequences, FiniteSets, TLC

VARIABLES
    ct,         \* the locals of one running chunk_text call
    documents,  \* committed rows of the documents table (a set, keyed by id)
    chunks,     \* committed rows of the chunks table, in rowid (scan) order
    writer,     \* the connection holding SQLite's write lock, or NoProc
    wdocuments, \* the documents table as the open write transaction sees it
    wchunks,    \* the chunks table as the open write transaction sees it
    proc,       \* per caller: the locals of the handler it is running
    tmpfiles,   \* the temporary files (named by document id) that exist on disk
    nextId,     \* the number of uuids drawn for documents so far
    rt          \* the locals of one running retrieve_chunks call

vars == <<ct, documents, chunks, writer, wdocuments, wchunks, proc, tmpfiles, nextId, rt>>

-----------------------------------------------------------------------------
(* Bounds *)

MaxTextLen == 5
MaxSize == 4
MaxOverlap == 5

-----------------------------------------------------------------------------
(* Text helpers: str.split(), " ".join(), str.strip() *)

Space == " "
Alphabet == {"a", "b", Space}

Min(a, b) == IF a < b THEN a ELSE b
Max(a, b) == IF a > b THEN a ELSE b

\* str.strip(): drop leading and trailing whitespace
RECURSIVE LStrip(_)
LStrip(s) == IF s # <<>> /\ Head(s) = Space THEN LStrip(Tail(s)) ELSE s

RECURSIVE RStrip(_)
RStrip(s) ==
    IF s # <<>> /\ s[Len(s)] = Space THEN RStrip(SubSeq(s, 1, Len(s) - 1)) ELSE s

Strip(s) == RStrip(LStrip(s))

\* str.split() with no separator: the maximal runs of non-whitespace characters
RECURSIVE SplitFrom(_, _, _)
SplitFrom(s, cur, acc) ==
    IF s = <<>>
    THEN IF cur = <<>> THEN acc ELSE Append(acc, cur)
    ELSE IF Head(s) = Space
         THEN SplitFrom(Tail(s), <<>>, IF cur = <<>> THEN acc ELSE Append(acc, cur))
         ELSE SplitFrom(Tail(s), Append(cur, Head(s)), acc)

Split(s) == SplitFrom(s, <<>>, <<>>)

\* " ".join(ws)
RECURSIVE Join(_)
Join(ws) ==
    IF ws = <<>> THEN <<>>
    ELSE IF Len(ws) = 1 THEN ws[1]
    ELSE ws[1] \o <<Space>> \o Join(Tail(ws))

\* words[start:end] of Python (0-based, end exclusive)
Slice(ws, start, end) == SubSeq(ws, start + 1, end)

-----------------------------------------------------------------------------
(* chunk_text *)

\* A faulty variant: the clamp written with the wrong divisor
ClampOverlap_Half(size, overlap) ==
    IF overlap >= size THEN Max(0, size \div 2) ELSE overlap

\* if chunk_overlap_words >= chunk_size_words: chunk_overlap_words = max(0, size // 4)
ClampOverlap(size, overlap) ==
    IF overlap >= size THEN Max(0, size \div 4) ELSE overlap

\* The locals of chunk_text before it is entered.
ChunkCall(text, size, overlap) ==
    [pc |-> "entry", text |-> text, size |-> size, overlap_arg |-> overlap,
     overlap |-> overlap, words |-> <<>>, n |-> 0, chunks |-> <<>>,
     start |-> 0, step |-> 0]

\* From the entry to the head of the while loop (or the ValueError).
ChunkEntry(c) ==
    IF c.size <= 0
    THEN [c EXCEPT !.pc = "raised"]
    ELSE LET ov == ClampOverlap(c.size, c.overlap)
             ws == Split(c.text)
         IN  [c EXCEPT !.pc = "loop", !.overlap = ov, !.words = ws, !.n = Len(ws),
                       !.chunks = <<>>, !.start = 0, !.step = c.size - ov]

\* A faulty variant: the window start advances past the end of the window (a word is skipped)
ChunkIter_SkipsWord(c) ==
    LET end == Min(c.start + c.size, c.n)
        chunk == Strip(Join(Slice(c.words, c.start, end)))
        out == IF chunk # <<>> THEN Append(c.chunks, chunk) ELSE c.chunks
    IN  IF end = c.n
        THEN [c EXCEPT !.chunks = out, !.pc = "done"]
        ELSE [c EXCEPT !.chunks = out, !.start = c.start + c.size + 1]

\* One iteration of the while loop (its condition start < n holds).
ChunkIter(c) ==
    LET end == Min(c.start + c.size, c.n)
        chunk == Strip(Join(Slice(c.words, c.start, end)))
        out == IF chunk # <<>> THEN Append(c.chunks, chunk) ELSE c.chunks
    IN  IF end = c.n
        THEN [c EXCEPT !.chunks = out, !.pc = "done"]
        ELSE [c EXCEPT !.chunks = out, !.start = c.start + c.step]

\* The while condition fails: return chunks.
ChunkReturn(c) == [c EXCEPT !.pc = "done"]

RECURSIVE ChunkRun(_)
ChunkRun(c) ==
    IF c.pc = "entry" THEN ChunkRun(ChunkEntry(c))
    ELSE IF c.pc = "loop"
         THEN IF c.start < c.n THEN ChunkRun(ChunkIter(c)) ELSE ChunkReturn(c)
         ELSE c

\* chunk_text as a function: the final locals (pc = "raised" for the ValueError)
chunk_text(text, size, overlap) == ChunkRun(ChunkCall(text, size, overlap))

-----------------------------------------------------------------------------
(* The environment of the store: callers, files, the embedding model *)

MaxDocs == 1

Procs == {"p1", "p2"}
NoProc == "none"

\* new_file_path=None
NoPath == "<None>"

\* The regular files on disk; every other path does not exist.
FilePaths == {"empty.txt", "blank.txt", "b.txt", "ab.txt", "abc.txt", "abcde.txt"}

FileText(path) ==
    CASE path = "empty.txt" -> <<>>
      [] path = "blank.txt" -> <<" ", " ">>
      [] path = "b.txt" -> <<"b">>
      [] path = "ab.txt" -> <<"a", " ", "b">>
      [] path = "abc.txt" -> <<"a", " ", "b", " ", "c">>
      [] path = "abcde.txt" -> <<"a", " ", "b", " ", "c", " ", "d", " ", "e">>

\* tempfile.NamedTemporaryFile: a fresh name per call (named by the uuid drawn next)
TmpPath(id) == "tmp" \o ToString(id)

\* os.path.exists
Exists(path) == path \in FilePaths \/ \E f \in tmpfiles : f.path = path

\* open(path).read()
ReadFile(path) ==
    IF path \in FilePaths THEN FileText(path)
    ELSE (CHOOSE f \in tmpfiles : f.path = path).text

RECURSIVE CountChar(_, _)
CountChar(s, ch) ==
    IF s = <<>> THEN 0
    ELSE (IF Head(s) = ch THEN 1 ELSE 0) + CountChar(Tail(s), ch)

\* model.encode(text): a fixed vector per text (here two components, never zero);
\* json.dumps / json.loads of the list give the same numbers back
Embed(text) == <<1 + CountChar(text, "a"), 1 + CountChar(text, "b")>>

-----------------------------------------------------------------------------
(* The SQLite store.  A connection opened by get_conn runs its INSERT and DELETE
   statements inside one implicit transaction (sqlite3's default isolation
   level): the first write takes the database's write lock, the rows written
   are visible to others only after conn.commit(), and a connection dropped
   without commit rolls the transaction back. *)

IdleProc ==
    [op |-> "none", pc |-> "idle", doc |-> 0, path |-> NoPath, text |-> <<>>,
     size |-> 0, overlap |-> 0, todo |-> <<>>, idx |-> 0, snap |-> <<>>,
     result |-> "none"]

\* The handler returned or raised: its locals are gone, the call's arguments and
\* its outcome are what the caller is left with.
Returned(c, result) ==
    [IdleProc EXCEPT !.op = c.op,
                     !.path = IF c.op = "add_document_from_file" THEN c.path ELSE NoPath,
                     !.text = IF c.op = "add_document_from_text" THEN c.text ELSE <<>>,
                     !.result = result]

\* The locals of retrieve_chunks before it is entered.
RetrieveCall(query, k) ==
    [pc |-> "entry", query |-> query, k |-> k, top |-> <<>>, i |-> 0,
     context |-> <<>>, nearby |-> <<>>, result |-> <<>>]

NoRetrieve == RetrieveCall(<<>>, 0)

Init ==
    /\ ct = ChunkCall(<<>>, 1, 0)
    /\ documents = {}
    /\ chunks = <<>>
    /\ writer = NoProc
    /\ wdocuments = {}
    /\ wchunks = <<>>
    /\ proc = [p \in Procs |-> IdleProc]
    /\ tmpfiles = {}
    /\ nextId = 0
    /\ rt = NoRetrieve

storeVars == <<documents, chunks, writer, wdocuments, wchunks, proc, tmpfiles, nextId, rt>>

\* A faulty variant: no write lock, a second connection writes while another's
\* transaction is open
MayWrite_NoLock(p) == TRUE

\* A write statement runs when no other connection holds the write lock.
MayWrite(p) == writer \in {NoProc, p}

\* A faulty variant: isolation_level=None, every statement is committed as it runs
Durable_Autocommit(committed, working) == working

\* What an uncommitted write leaves in the committed table: nothing.
Durable(committed, working) == committed

\* A faulty variant: the DELETE is missing
DeleteRows_None(rows, d) == rows

\* DELETE FROM chunks WHERE document_id = ?
DeleteRows(rows, d) == SelectSeq(rows, LAMBDA r : r.document_id # d)

\* The tables the next write statement of a connection works on: its open
\* transaction's, or the committed ones when it begins a transaction.
WorkingDocuments == IF writer = NoProc THEN documents ELSE wdocuments
WorkingChunks == IF writer = NoProc THEN chunks ELSE wchunks

\* The rows of document d, in scan order.
RowsOf(rows, d) == SelectSeq(rows, LAMBDA r : r.document_id = d)

\* The row inserted for the idx-th (0-based) chunk.
ChunkRow(d, idx, text) ==
    [document_id |-> d, chunk_index |-> idx, text |-> text, embedding |-> Embed(text)]

\* The rows a complete (re-)index of document d with these chunk texts inserts.
FullRows(d, texts) == [i \in 1..Len(texts) |-> ChunkRow(d, i - 1, texts[i])]

\* A write statement of p ran: p holds the write lock, the committed tables keep
\* their rows.
Written(p, wd, wc) ==
    /\ writer' = IF writer = NoProc THEN p ELSE writer
    /\ wdocuments' = wd
    /\ wchunks' = wc
    /\ documents' = Durable(documents, wd)
    /\ chunks' = Durable(chunks, wc)

\* chunks = chunk_text(...) after the first write: the ValueError of a
\* non-positive chunk size leaves the handler with its transaction open.
AfterChunking(c) ==
    LET r == chunk_text(c.text, c.size, c.overlap)
    IN  IF r.pc = "raised"
        THEN [c EXCEPT !.pc = "failed",
                       !.result = "ValueError: chunk_size_words must be > 0"]
        ELSE [c EXCEPT !.pc = "chunks", !.todo = r.chunks, !.idx = 0]

\* add_document_from_file up to get_conn(): the checks, the title, the uuid.
add_document_from_file(p, path, size, overlap) ==
    /\ proc[p].pc = "idle"
    /\ LET c == [IdleProc EXCEPT !.op = "add_document_from_file", !.path = path,
                                 !.size = size, !.overlap = overlap]
       IN  IF ~Exists(path)
           THEN /\ proc' = [proc EXCEPT ![p] = Returned(c, "FileNotFoundError")]
                /\ UNCHANGED nextId
           ELSE IF Strip(ReadFile(path)) = <<>>
           THEN /\ proc' = [proc EXCEPT ![p] =
                                Returned(c, "ValueError: File is empty")]
                /\ UNCHANGED nextId
           ELSE /\ nextId < MaxDocs
                /\ nextId' = nextId + 1
                /\ proc' = [proc EXCEPT ![p] =
                                [c EXCEPT !.pc = "insert_doc", !.doc = nextId + 1,
                                          !.text = ReadFile(path)]]
    /\ UNCHANGED <<ct, documents, chunks, writer, wdocuments, wchunks, tmpfiles, rt>>

\* add_document_from_text up to get_conn() of the add_document_from_file it calls.
add_document_from_text(p, text, size, overlap) ==
    /\ proc[p].pc = "idle"
    /\ LET c == [IdleProc EXCEPT !.op = "add_document_from_text", !.text = text,
                                 !.size = size, !.overlap = overlap]
       IN  IF Strip(text) = <<>>
           THEN /\ proc' = [proc EXCEPT ![p] =
                                Returned(c, "returned: No text provided")]
                /\ UNCHANGED <<nextId, tmpfiles>>
           ELSE /\ nextId < MaxDocs
                /\ nextId' = nextId + 1
                /\ tmpfiles' = tmpfiles \cup {[path |-> TmpPath(nextId + 1), text |-> text]}
                /\ proc' = [proc EXCEPT ![p] =
                                [c EXCEPT !.pc = "insert_doc", !.doc = nextId + 1,
                                          !.path = TmpPath(nextId + 1)]]
    /\ UNCHANGED <<ct, documents, chunks, writer, wdocuments, wchunks, rt>>

\* The title a new document row gets.
TitleOf(c) == IF c.op = "add_document_from_text" THEN "pasted_text" ELSE c.path

\* INSERT INTO documents, then chunk_text and get_model.
ExecInsertDocument(p) ==
    /\ proc[p].pc = "insert_doc"
    /\ MayWrite(p)
    /\ Written(p, WorkingDocuments \cup
                    {[id |-> proc[p].doc, title |-> TitleOf(proc[p]),
                      path |-> proc[p].path, uploaded_at |-> proc[p].doc]},
               WorkingChunks)
    /\ proc' = [proc EXCEPT ![p] =
                    AfterChunking([proc[p] EXCEPT !.snap = <<documents, chunks>>])]
    /\ UNCHANGED <<ct, tmpfiles, nextId, rt>>

\* reindex_document up to the DELETE: resolve the path, read the file.
reindex_document(p, d, new_file_path, size, overlap) ==
    /\ proc[p].pc = "idle"
    /\ LET c == [IdleProc EXCEPT !.op = "reindex_document", !.doc = d,
                                 !.path = new_file_path, !.size = size,
                                 !.overlap = overlap]
           row == {r \in documents : r.id = d}
           path == IF new_file_path = NoPath
                   THEN (CHOOSE r \in row : TRUE).path
                   ELSE new_file_path
       IN  IF new_file_path = NoPath /\ row = {}
           THEN proc' = [proc EXCEPT ![p] =
                            Returned(c, "ValueError: document_id not found")]
           ELSE IF ~Exists(path)
           THEN proc' = [proc EXCEPT ![p] = Returned(c, "FileNotFoundError")]
           ELSE proc' = [proc EXCEPT ![p] =
                            [c EXCEPT !.pc = "delete", !.text = ReadFile(path)]]
    /\ UNCHANGED <<ct, documents, chunks, writer, wdocuments, wchunks, tmpfiles, nextId, rt>>

\* DELETE FROM chunks WHERE document_id = ?, then chunk_text and get_model.
ExecDeleteChunks(p) ==
    /\ proc[p].pc = "delete"
    /\ MayWrite(p)
    /\ Written(p, WorkingDocuments, DeleteRows(WorkingChunks, proc[p].doc))
    /\ proc' = [proc EXCEPT ![p] =
                    AfterChunking([proc[p] EXCEPT !.snap = <<documents, chunks>>])]
    /\ UNCHANGED <<ct, tmpfiles, nextId, rt>>

\* The first write statement finds the database locked by another connection
\* until the busy timeout runs out: sqlite3.OperationalError, nothing written.
ExecLocked(p) ==
    /\ proc[p].pc \in {"insert_doc", "delete"}
    /\ ~MayWrite(p)
    /\ proc' = [proc EXCEPT ![p] =
                    Returned(proc[p], "OperationalError: database is locked")]
    /\ UNCHANGED <<ct, documents, chunks, writer, wdocuments, wchunks, tmpfiles, nextId, rt>>

\* A faulty variant: the connection is opened without PRAGMA foreign_keys = ON
ForeignKeyHolds_Off(docs, d) == TRUE

\* FOREIGN KEY (document_id) REFERENCES documents (id), enforced per statement.
ForeignKeyHolds(docs, d) == \E r \in docs : r.id = d

\* One pass of the embedding loop: model.encode, then INSERT INTO chunks. The
\* provider may raise; the INSERT fails on the foreign key when the document
\* row does not exist (PRAGMA foreign_keys = ON).
ExecInsertChunk(p) ==
    /\ proc[p].pc = "chunks"
    /\ proc[p].idx < Len(proc[p].todo)
    /\ \/ /\ proc' = [proc EXCEPT ![p] =
                        [@ EXCEPT !.pc = "failed", !.result = "ProviderError"]]
          /\ UNCHANGED <<documents, chunks, writer, wdocuments, wchunks>>
       \/ /\ ~ForeignKeyHolds(WorkingDocuments, proc[p].doc)
          /\ proc' = [proc EXCEPT ![p] =
                        [@ EXCEPT !.pc = "failed",
                                  !.result = "IntegrityError: FOREIGN KEY constraint failed"]]
          /\ UNCHANGED <<documents, chunks, writer, wdocuments, wchunks>>
       \/ /\ ForeignKeyHolds(WorkingDocuments, proc[p].doc)
          /\ Written(p, WorkingDocuments,
                     Append(WorkingChunks,
                            ChunkRow(proc[p].doc, proc[p].idx,
                                     proc[p].todo[proc[p].idx + 1])))
          /\ proc' = [proc EXCEPT ![p] = [@ EXCEPT !.idx = @ + 1]]
    /\ UNCHANGED <<ct, tmpfiles, nextId, rt>>

\* conn.commit(), conn.close(), return.
ExecCommit(p) ==
    /\ proc[p].pc = "chunks"
    /\ proc[p].idx = Len(proc[p].todo)
    /\ documents' = WorkingDocuments
    /\ chunks' = WorkingChunks
    /\ writer' = IF writer = p THEN NoProc ELSE writer
    /\ wdocuments' = IF writer = p THEN {} ELSE wdocuments
    /\ wchunks' = IF writer = p THEN <<>> ELSE wchunks
    /\ proc' = [proc EXCEPT ![p] =
                    IF proc[p].op = "add_document_from_text"
                    THEN [@ EXCEPT !.pc = "remove_tmp"]
                    ELSE Returned(proc[p], "ok")]
    /\ UNCHANGED <<ct, tmpfiles, nextId, rt>>

\* The exception leaves the handler: its connection is dropped without a
\* commit, which rolls its transaction back and frees the write lock.
ExecRollback(p) ==
    /\ proc[p].pc = "failed"
    /\ writer' = IF writer = p THEN NoProc ELSE writer
    /\ wdocuments' = IF writer = p THEN {} ELSE wdocuments
    /\ wchunks' = IF writer = p THEN <<>> ELSE wchunks
    /\ proc' = [proc EXCEPT ![p] = Returned(proc[p], proc[p].result)]
    /\ UNCHANGED <<ct, documents, chunks, tmpfiles, nextId, rt>>

\* os.remove(tmp_path) after add_document_from_file returned.
ExecRemoveTmp(p) ==
    /\ proc[p].pc = "remove_tmp"
    /\ tmpfiles' = {f \in tmpfiles : f.path # proc[p].path}
    /\ proc' = [proc EXCEPT ![p] = Returned(proc[p], "ok")]
    /\ UNCHANGED <<ct, documents, chunks, writer, wdocuments, wchunks, nextId, rt>>

\* title=None of update_document_metadata
NoTitle == "<None>"

\* A faulty variant: UPDATE documents SET title = ?, path = ? whatever was supplied
UpdatedRow_AllFields(r, title, path) == [r EXCEPT !.title = title, !.path = path]

\* UPDATE documents SET <the supplied fields> on one row.
UpdatedRow(r, title, path) ==
    [r EXCEPT !.title = IF title = NoTitle THEN @ ELSE title,
              !.path = IF path = NoPath THEN @ ELSE path]

\* update_document_metadata, whole: the early return, the UPDATE (a write
\* statement, which fails when another connection holds the write lock), the
\* commit, the row count.
update_document_metadata(p, d, title, path) ==
    /\ proc[p].pc = "idle"
    /\ LET c == [IdleProc EXCEPT !.op = "update_document_metadata"]
       IN  IF title = NoTitle /\ path = NoPath
           THEN /\ proc' = [proc EXCEPT ![p] = Returned(c, "False")]
                /\ UNCHANGED documents
           ELSE IF ~MayWrite(p)
           THEN /\ proc' = [proc EXCEPT ![p] =
                                Returned(c, "OperationalError: database is locked")]
                /\ UNCHANGED documents
           ELSE /\ documents' = {IF r.id = d THEN UpdatedRow(r, title, path) ELSE r :
                                    r \in documents}
                /\ proc' = [proc EXCEPT ![p] =
                                Returned(c, IF \E r \in documents : r.id = d
                                            THEN "True" ELSE "False")]
    /\ UNCHANGED <<ct, chunks, writer, wdocuments, wchunks, tmpfiles, nextId, rt>>

\* The inputs the callers draw from.
IngestPaths == {"missing.txt", "empty.txt", "ab.txt"}
ReindexPaths == {NoPath, "missing.txt", "empty.txt", "b.txt"}
PastedTexts == {<<>>, <<" ">>, <<"a">>}
StoreParams == {<<0, 0>>, <<1, 0>>}
DocIds == 1..MaxDocs
Titles == {NoTitle, "t"}
MetadataPaths == {NoPath, "b.txt"}
\* <<title, path>> of the metadata updates run next to ingest and reindex
StoreMetadata == {<<NoTitle, NoPath>>, <<"t", "b.txt">>}

StoreNext(P, ipaths, rpaths, texts, params, metadata) ==
    \E p \in P :
        \/ \E path \in ipaths, prm \in params :
                add_document_from_file(p, path, prm[1], prm[2])
        \/ \E text \in texts, prm \in params :
                add_document_from_text(p, text, prm[1], prm[2])
        \/ \E d \in DocIds, path \in rpaths, prm \in params :
                reindex_document(p, d, path, prm[1], prm[2])
        \/ \E d \in DocIds, m \in metadata :
                update_document_metadata(p, d, m[1], m[2])
        \/ ExecInsertDocument(p)
        \/ ExecDeleteChunks(p)
        \/ ExecLocked(p)
        \/ ExecInsertChunk(p)
        \/ ExecCommit(p)
        \/ ExecRollback(p)
        \/ ExecRemoveTmp(p)

Next ==
    StoreNext(Procs, IngestPaths, ReindexPaths, PastedTexts, StoreParams, StoreMetadata)

\* The handlers of final.py run on the web server's worker threads: two callers.
Spec == Init /\ [][Next]_vars

-----------------------------------------------------------------------------
(* retrieve_chunks (src/sad.py) *)

MaxRetrDocs == 2
MaxK == 3
TOP_K == 5

Dot(a, b) == a[1] * b[1] + a[2] * b[2]

Sgn(x) == IF x > 0 THEN 1 ELSE IF x < 0 THEN -1 ELSE 0

\* cosine_similarity(q, a) < cosine_similarity(q, b), compared exactly: the sign
\* and the square of dot / (|q| |e|), cross-multiplied (no vector here is zero)
CosLess(q, a, b) ==
    Sgn(Dot(q, a)) * Dot(q, a) * Dot(q, a) * Dot(b, b)
        < Sgn(Dot(q, b)) * Dot(q, b) * Dot(q, b) * Dot(a, a)

CosEq(q, a, b) == ~CosLess(q, a, b) /\ ~CosLess(q, b, a)

\* similarities: one entry per row read, in scan order (pos is the place of the
\* row in the scan; emb stands for the entry's sim against the query)
Similarities(rows) ==
    [i \in 1..Len(rows) |->
        [pos |-> i, emb |-> rows[i].embedding, document_id |-> rows[i].document_id,
         chunk_index |-> rows[i].chunk_index, text |-> rows[i].text]]

\* A faulty variant: an entry is placed before the entries of equal similarity
RECURSIVE InsertDesc_Unstable(_, _, _)
InsertDesc_Unstable(s, x, q) ==
    IF s # <<>> /\ CosLess(q, x.emb, Head(s).emb)
    THEN <<Head(s)>> \o InsertDesc_Unstable(Tail(s), x, q)
    ELSE <<x>> \o s

\* x placed into a list sorted by similarity descending, after every entry that
\* does not rank below it (list.sort is stable, also with reverse=True)
RECURSIVE InsertDesc(_, _, _)
InsertDesc(s, x, q) ==
    IF s # <<>> /\ ~CosLess(q, Head(s).emb, x.emb)
    THEN <<Head(s)>> \o InsertDesc(Tail(s), x, q)
    ELSE <<x>> \o s

\* similarities.sort(key=lambda x: x[0], reverse=True)
RECURSIVE SortDesc(_, _)
SortDesc(s, q) ==
    IF s = <<>> THEN <<>>
    ELSE InsertDesc(SortDesc(SubSeq(s, 1, Len(s) - 1), q), s[Len(s)], q)

\* similarities[:k]
TopK(s, k) == SubSeq(s, 1, Min(k, Len(s)))

\* A faulty variant: only the chunk after the hit is fetched
NearbyRows_After(rows, d, idx) ==
    SelectSeq(rows, LAMBDA r : r.document_id = d /\ r.chunk_index >= idx
                                /\ r.chunk_index <= idx + 1)

\* SELECT text FROM chunks WHERE document_id=? AND chunk_index BETWEEN ? AND ?
NearbyRows(rows, d, idx) ==
    SelectSeq(rows, LAMBDA r : r.document_id = d /\ r.chunk_index >= idx - 1
                                /\ r.chunk_index <= idx + 1)

TextsOf(rows) == [i \in 1..Len(rows) |-> rows[i].text]

\* A faulty variant: the context is returned as collected
Dedupe_None(s, seen, acc) == s

\* final_context: the first occurrence of every element, in order
RECURSIVE Dedupe(_, _, _)
Dedupe(s, seen, acc) ==
    IF s = <<>> THEN acc
    ELSE IF Head(s) \in seen
         THEN Dedupe(Tail(s), seen, acc)
         ELSE Dedupe(Tail(s), seen \cup {Head(s)}, Append(acc, Head(s)))

\* From the entry to the head of the loop over top_chunks.
RetrieveRank ==
    /\ rt.pc = "entry"
    /\ rt' = [rt EXCEPT !.pc = "expand", !.i = 0,
                        !.top = TopK(SortDesc(Similarities(chunks), Embed(rt.query)), rt.k)]
    /\ UNCHANGED <<ct, documents, chunks, writer, wdocuments, wchunks, proc, tmpfiles, nextId>>

\* One pass of the loop: the hit's text, then its nearby rows' texts.
RetrieveExpand ==
    /\ rt.pc = "expand"
    /\ rt.i < Len(rt.top)
    /\ LET hit == rt.top[rt.i + 1]
           near == TextsOf(NearbyRows(chunks, hit.document_id, hit.chunk_index))
       IN  rt' = [rt EXCEPT !.i = rt.i + 1,
                            !.context = Append(rt.context, hit.text) \o near,
                            !.nearby = Append(rt.nearby, near)]
    /\ UNCHANGED <<ct, documents, chunks, writer, wdocuments, wchunks, proc, tmpfiles, nextId>>

\* conn.close(), the deduplication, return final_context.
RetrieveReturn ==
    /\ rt.pc = "expand"
    /\ rt.i = Len(rt.top)
    /\ rt' = [rt EXCEPT !.pc = "done", !.result = Dedupe(rt.context, {}, <<>>)]
    /\ UNCHANGED <<ct, documents, chunks, writer, wdocuments, wchunks, proc, tmpfiles, nextId>>

\* The stores retrieval is run against: documents 1..nd, each ingested whole from
\* one file with one chunking, in the order of their ids.
RetrPaths == {"b.txt", "ab.txt", "abc.txt", "abcde.txt"}
RetrParams == {<<1, 0>>, <<2, 1>>}
Queries == {<<"a">>, <<"b">>, <<"a", " ", "b">>}
Ks == (1..MaxK) \cup {TOP_K}

IngestedRows(d, src) ==
    FullRows(d, chunk_text(FileText(src[1]), src[2][1], src[2][2]).chunks)

RECURSIVE StoreRows(_, _)
StoreRows(srcs, nd) ==
    IF nd = 0 THEN <<>>
    ELSE StoreRows(srcs, nd - 1) \o IngestedRows(nd, srcs[nd])

InitRetrieve ==
    /\ ct = ChunkCall(<<>>, 1, 0)
    /\ \E nd \in 0..MaxRetrDocs :
        \E srcs \in [1..nd -> RetrPaths \X RetrParams] :
            /\ documents = {[id |-> d, title |-> srcs[d][1], path |-> srcs[d][1],
                             uploaded_at |-> d] : d \in 1..nd}
            /\ chunks = StoreRows(srcs, nd)
            /\ nextId = nd
    /\ writer = NoProc
    /\ wdocuments = {}
    /\ wchunks = <<>>
    /\ proc = [p \in Procs |-> IdleProc]
    /\ tmpfiles = {}
    /\ \E query \in Queries, k \in Ks : rt = RetrieveCall(query, k)

NextRetrieve == RetrieveRank \/ RetrieveExpand \/ RetrieveReturn

SpecRetrieve == InitRetrieve /\ [][NextRetrieve]_vars

-----------------------------------------------------------------------------
(* Claims about retrieve_chunks *)

\* Entry x ranks before entry y: higher similarity to the query, or the same
\* similarity and read earlier in the scan (embeddings taken from the table).
RanksBefore(q, x, y) ==
    \/ CosLess(q, chunks[y].embedding, chunks[x].embedding)
    \/ /\ CosEq(q, chunks[x].embedding, chunks[y].embedding)
       /\ x < y

TopPositions == {rt.top[i].pos : i \in 1..Len(rt.top)}

\* The hits are rows of the table, each once, ranked, and nothing left out ranks
\* before a hit.
TopIsRankingPrefix ==
    LET q == Embed(rt.query)
    IN  /\ \A i \in 1..Len(rt.top) :
            /\ rt.top[i].pos \in 1..Len(chunks)
            /\ rt.top[i].document_id = chunks[rt.top[i].pos].document_id
            /\ rt.top[i].chunk_index = chunks[rt.top[i].pos].chunk_index
            /\ rt.top[i].text = chunks[rt.top[i].pos].text
        /\ \A i, j \in 1..Len(rt.top) :
            i < j => RanksBefore(q, rt.top[i].pos, rt.top[j].pos)
        /\ \A x \in (1..Len(chunks)) \ TopPositions :
            \A i \in 1..Len(rt.top) : RanksBefore(q, rt.top[i].pos, x)

\* C5: the top-k hits are the first k of all stored chunks ordered by cosine
\* similarity to the query, descending; chunks of identical similarity keep
\* their scan order.
C5_TopKStableBySimilarity ==
    rt.pc # "entry" =>
        /\ Len(rt.top) = Min(rt.k, Len(chunks))
        /\ TopIsRankingPrefix

\* C5 witness: two hits of identical similarity, the earlier-scanned one first,
\* and a third chunk of that same similarity cut off by k.
C5_Witness ==
    /\ rt.pc = "done"
    /\ Len(rt.top) >= 2
    /\ \E i \in 1..(Len(rt.top) - 1) :
        /\ CosEq(Embed(rt.query), rt.top[i].emb, rt.top[i + 1].emb)
        /\ rt.top[i].text # rt.top[i + 1].text
        /\ \E x \in (1..Len(chunks)) \ TopPositions :
                CosEq(Embed(rt.query), chunks[x].embedding, rt.top[i].emb)

\* The places in the table of the stored neighbours of hit i (itself included).
NeighbourPositions(i) ==
    {x \in 1..Len(chunks) :
        /\ chunks[x].document_id = rt.top[i].document_id
        /\ chunks[x].chunk_index \in
                (rt.top[i].chunk_index - 1)..(rt.top[i].chunk_index + 1)}

\* The flattened list: per hit in rank order, its text, then its neighbours'.
RECURSIVE Flattened(_)
Flattened(n) ==
    IF n = 0 THEN <<>>
    ELSE Flattened(n - 1) \o <<rt.top[n].text>> \o rt.nearby[n]

FirstAt(s, t) == CHOOSE i \in 1..Len(s) : s[i] = t /\ \A j \in 1..(i - 1) : s[j] # t

\* C4: retrieve_chunks returns pairwise distinct texts, the first occurrences of
\* the flattened list that holds, for each top-k hit in rank order, the hit's
\* text followed by the texts of every stored chunk of the same document with
\* chunk_index in [hit - 1, hit + 1]; a hit at the first or last chunk has fewer
\* neighbours; a hit at chunk_index 2 of a 5-chunk document contributes exactly
\* that document's chunks 1, 2, 3.
C4_ContextIsDedupedNeighbourhoods ==
    rt.pc = "done" =>
        LET flat == Flattened(Len(rt.top))
            res == rt.result
        IN  /\ Len(rt.nearby) = Len(rt.top)
            /\ \A i \in 1..Len(rt.top) :
                /\ Len(rt.nearby[i]) = Cardinality(NeighbourPositions(i))
                /\ {rt.nearby[i][j] : j \in 1..Len(rt.nearby[i])}
                        = {chunks[x].text : x \in NeighbourPositions(i)}
                /\ (rt.top[i].chunk_index = 2
                        /\ Len(RowsOf(chunks, rt.top[i].document_id)) = 5) =>
                        {chunks[x].chunk_index : x \in NeighbourPositions(i)} = {1, 2, 3}
                /\ rt.top[i].chunk_index = 0 => Len(rt.nearby[i]) <= 2
            /\ \A a, b \in 1..Len(res) : a # b => res[a] # res[b]
            /\ {res[a] : a \in 1..Len(res)} = {flat[j] : j \in 1..Len(flat)}
            /\ \A a, b \in 1..Len(res) :
                a < b => FirstAt(flat, res[a]) < FirstAt(flat, res[b])

\* C4 witness: a hit at chunk_index 2 of a 5-chunk document with three
\* neighbours fetched, and a context in which a text occurred more than once.
C4_Witness ==
    /\ rt.pc = "done"
    /\ \E i \in 1..Len(rt.top) :
        /\ rt.top[i].chunk_index = 2
        /\ Len(RowsOf(chunks, rt.top[i].document_id)) = 5
        /\ Len(rt.nearby[i]) = 3
    /\ \E i \in 1..Len(rt.top) : rt.top[i].chunk_index = 0
    /\ Len(rt.result) < Len(rt.context)

StoredTexts == {chunks[x].text : x \in 1..Len(chunks)}

PositionOfText(t) == (CHOOSE x \in 1..Len(chunks) : chunks[x].text = t)

\* C6 (as claimed): with fewer than k chunks stored, retrieve_chunks returns all
\* of the stored chunks ordered by similarity descending; on the empty table it
\* returns the empty sequence.
C6_ReturnsAllBySimilarity ==
    (rt.pc = "done" /\ Len(chunks) < rt.k) =>
        /\ {rt.result[a] : a \in 1..Len(rt.result)} = StoredTexts
        /\ \A a, b \in 1..Len(rt.result) :
            a < b => ~CosLess(Embed(rt.query),
                              chunks[PositionOfText(rt.result[a])].embedding,
                              chunks[PositionOfText(rt.result[b])].embedding)
        /\ chunks = <<>> => rt.result = <<>>

\* C6 (amended): with fewer than k chunks stored, the hit list holds every stored
\* chunk once, ordered by similarity descending (ties in scan order), and
\* retrieve_chunks returns every distinct stored text exactly once, beginning
\* with the top hit's text (the order after it is that of the hits' widened
\* neighbourhoods, not of similarity); on the empty table it returns the empty
\* sequence.
C6_FewerThanKReturnsEveryText ==
    (rt.pc = "done" /\ Len(chunks) < rt.k) =>
        /\ Len(rt.top) = Len(chunks)
        /\ TopPositions = 1..Len(chunks)
        /\ \A i, j \in 1..Len(rt.top) :
            i < j => ~CosLess(Embed(rt.query), chunks[rt.top[i].pos].embedding,
                              chunks[rt.top[j].pos].embedding)
        /\ {rt.result[a] : a \in 1..Len(rt.result)} = StoredTexts
        /\ Len(rt.result) = Cardinality(StoredTexts)
        /\ chunks # <<>> => rt.result[1] = rt.top[1].text
        /\ chunks = <<>> => rt.result = <<>>

\* C6 witness: three chunks stored, k = 5, and the returned order differs from
\* the order of the ranked hits.
C6_Witness ==
    /\ rt.pc = "done"
    /\ Len(chunks) = 3
    /\ rt.k = TOP_K
    /\ Len(rt.result) = 3
    /\ rt.result # TextsOf(rt.top)

-----------------------------------------------------------------------------
(* Claims about the store *)

IndexesOf(rows, d) == {RowsOf(rows, d)[i].chunk_index : i \in 1..Len(RowsOf(rows, d))}

\* The committed rows of every document carry the indexes 0..count-1, each once.
ContiguousIndexes(rows) ==
    \A d \in DocIds :
        /\ IndexesOf(rows, d) = 0..(Len(RowsOf(rows, d)) - 1)
        /\ Cardinality(IndexesOf(rows, d)) = Len(RowsOf(rows, d))

\* p's reindex_document commits and returns in this step.
ReindexCompletes(p) ==
    /\ proc[p].op = "reindex_document"
    /\ proc[p].pc = "chunks"
    /\ proc'[p].pc = "idle"
    /\ proc'[p].result = "ok"

\* C2: after any sequence of ingest and reindex operations the committed chunk
\* rows of every document have the chunk_index values 0..chunk_count-1, no gap
\* and no duplicate; when a reindex of a document completes, the document's rows
\* are exactly the chunks of the new text, none of the prior version remains.
C2_ReindexLeavesOneContiguousRun ==
    [][/\ ContiguousIndexes(chunks')
       /\ \A p \in Procs :
            ReindexCompletes(p) =>
                RowsOf(chunks', proc[p].doc) =
                    FullRows(proc[p].doc,
                             chunk_text(proc[p].text, proc[p].size, proc[p].overlap).chunks)
      ]_vars

\* C2 witness: a document ingested from ab.txt (chunks "a", "b") was reindexed
\* from b.txt and now holds the single chunk "b".
C2_Witness ==
    /\ \E p \in Procs : proc[p].op = "reindex_document" /\ proc[p].result = "ok"
    /\ \E r \in documents :
            /\ r.path = "ab.txt"
            /\ RowsOf(chunks, r.id) = FullRows(r.id, << <<"b">> >>)

\* C3: ingest and reindex are all-or-nothing on the durable store: when the
\* operation fails after its first write (the document insert or the chunk
\* delete) and before its commit, the committed store is the store of the
\* moment of that first write, while the failure propagates and after the
\* connection is dropped: no document with part of its chunks, and the prior
\* chunks of a reindexed document intact.
C3_FailureLeavesStoreUntouched ==
    [][\A p \in Procs :
            /\ proc'[p].pc = "failed" => <<documents', chunks'>> = proc'[p].snap
            /\ (proc[p].pc = "failed" /\ proc'[p].pc = "idle") =>
                    /\ <<documents', chunks'>> = proc[p].snap
                    /\ writer' # p
      ]_vars

\* C3 witness: the provider failed on the second chunk of a reindex; one new row
\* is written in the open transaction, the committed rows are the prior ones.
C3_Witness ==
    \E p \in Procs :
        /\ proc[p].op = "reindex_document"
        /\ proc[p].pc = "failed"
        /\ proc[p].result = "ProviderError"
        /\ proc[p].idx = 1
        /\ Len(RowsOf(chunks, proc[p].doc)) = 2
        /\ Len(RowsOf(wchunks, proc[p].doc)) = 1

\* The input of the ingestion the caller p last made was empty or whitespace.
BlankIngest(c) ==
    \/ /\ c.op = "add_document_from_file"
       /\ c.path \in FilePaths
       /\ Strip(FileText(c.path)) = <<>>
    \/ /\ c.op = "add_document_from_text"
       /\ Strip(c.text) = <<>>

\* C7 (as claimed): ingesting empty or whitespace-only text through either entry
\* point raises a validation error to the caller and creates no row.
C7_BlankIngestRaises ==
    [][\A p \in Procs :
            (proc[p].pc = "idle" /\ proc'[p] # proc[p] /\ BlankIngest(proc'[p])) =>
                /\ proc'[p].pc = "idle"
                /\ proc'[p].result = "ValueError: File is empty"
                /\ UNCHANGED <<documents, chunks, wdocuments, wchunks>>
      ]_vars

\* C8 (as claimed, for a source that can be read and a positive chunk size): a
\* reindex of a document_id that was never in the documents table fails with the
\* not-found error and leaves the store unchanged.
C8_UnknownDocumentNotFound ==
    [][\A p \in Procs :
            (/\ proc[p].op = "reindex_document"
             /\ proc[p].pc # "idle"
             /\ proc'[p].pc = "idle"
             /\ proc[p].size > 0
             /\ proc[p].doc > nextId) =>
                /\ proc'[p].result = "ValueError: document_id not found"
                /\ UNCHANGED <<documents, chunks>>
      ]_vars

\* p is between its DELETE and its commit (or the drop of its connection).
InDeleteInsertPhase(p) ==
    /\ proc[p].op = "reindex_document"
    /\ proc[p].pc \in {"chunks", "failed"}

\* C10: two reindex calls on the same document never interleave their
\* delete-then-insert phases: at most one of them is inside its phase, and the
\* committed rows of a document change only when one call commits, to the
\* complete chunk set of that call (never a mix of rows of two calls).
C10_ReindexPhasesExclusive ==
    [][/\ \A p, q \in Procs :
            (p # q /\ proc'[p].doc = proc'[q].doc) =>
                ~(InDeleteInsertPhase(p)' /\ InDeleteInsertPhase(q)')
       /\ \A d \in DocIds :
            RowsOf(chunks', d) # RowsOf(chunks, d) =>
                \E p \in Procs :
                    /\ proc[p].pc = "chunks"
                    /\ proc[p].idx = Len(proc[p].todo)
                    /\ proc[p].doc = d
                    /\ proc'[p].pc # "chunks"
                    /\ RowsOf(chunks', d) = FullRows(d, proc[p].todo)
      ]_vars

\* C10 witness: one reindex of a document is inside its phase, having written a
\* row, while a second reindex of the same document has read its source and
\* waits at its DELETE.
C10_Witness ==
    \E p, q \in Procs :
        /\ p # q
        /\ InDeleteInsertPhase(p) /\ proc[p].pc = "chunks" /\ proc[p].idx = 1
        /\ proc[q].op = "reindex_document" /\ proc[q].pc = "delete"
        /\ proc[q].doc = proc[p].doc
        /\ proc[q].text # proc[p].text
        /\ \E r \in documents : r.id = proc[p].doc

\* C11: in every committed state reached by ingest, reindex and metadata
\* update calls, successful or failed, every chunk row's document_id is the id
\* of a document row: no orphan chunk exists, also after a reindex with a fresh
\* source for a document_id that does not exist.
C11_NoOrphanChunk ==
    \A i \in 1..Len(chunks) : \E r \in documents : r.id = chunks[i].document_id

\* C11 witness: a reindex with a fresh, non-empty source for an id that has no
\* document row reached its first INSERT, was refused, and has left.
C11_Witness ==
    \E p \in Procs :
        /\ proc[p].op = "reindex_document"
        /\ proc[p].pc = "idle"
        /\ proc[p].result = "IntegrityError: FOREIGN KEY constraint failed"
        /\ documents = {}

-----------------------------------------------------------------------------
(* update_document_metadata on a populated store, next to reindex calls *)

MaxMetaDocs == 2

\* The stores the calls start from: up to MaxMetaDocs documents, each ingested
\* whole from one file, in the order of their ids.
MetaSources == {"ab.txt"} \X {<<1, 0>>}
MetaDocIds == 1..MaxMetaDocs
\* The reindex calls that run next to the updates: of the first document, from
\* its stored path or a fresh one.
MetaReindexIds == {1}
MetaReindexPaths == {NoPath, "b.txt"}

InitMetadata ==
    /\ ct = ChunkCall(<<>>, 1, 0)
    /\ \E nd \in 0..MaxMetaDocs :
        \E srcs \in [1..nd -> MetaSources] :
            /\ documents = {[id |-> d, title |-> srcs[d][1], path |-> srcs[d][1],
                             uploaded_at |-> d] : d \in 1..nd}
            /\ chunks = StoreRows(srcs, nd)
            /\ nextId = nd
    /\ writer = NoProc
    /\ wdocuments = {}
    /\ wchunks = <<>>
    /\ proc = [p \in Procs |-> IdleProc]
    /\ tmpfiles = {}
    /\ rt = NoRetrieve

NextMetadata ==
    \E p \in Procs :
        \/ \E d \in MetaDocIds, title \in Titles, path \in MetadataPaths :
                update_document_metadata(p, d, title, path)
        \/ \E d \in MetaReindexIds, path \in MetaReindexPaths :
                reindex_document(p, d, path, 1, 0)
        \/ ExecDeleteChunks(p)
        \/ ExecLocked(p)
        \/ ExecInsertChunk(p)
        \/ ExecCommit(p)
        \/ ExecRollback(p)

SpecMetadata == InitMetadata /\ [][NextMetadata]_vars

\* What the claim allows the addressed row to become.
OnlySuppliedFields(r, r2, title, path) ==
    /\ r2.id = r.id
    /\ r2.uploaded_at = r.uploaded_at
    /\ r2.title = (IF title = NoTitle THEN r.title ELSE title)
    /\ r2.path = (IF path = NoPath THEN r.path ELSE path)

\* C12: update_document_metadata changes only the supplied fields (title and/or
\* path) of the one addressed document row; it returns False and changes
\* nothing when neither field is supplied or when document_id does not exist,
\* and True otherwise; every chunk row, every other document row, and the id
\* and uploaded_at of the addressed row stay as they were. (A call that finds
\* the database write-locked by another connection does not return: it raises
\* sqlite3.OperationalError, and changes nothing.)
C12_UpdateChangesOnlySuppliedFields ==
    [][\A p \in Procs, d \in MetaDocIds, title \in Titles, path \in MetadataPaths :
            update_document_metadata(p, d, title, path) =>
                LET found == \E r \in documents : r.id = d
                    supplied == title # NoTitle \/ path # NoPath
                    locked == supplied /\ writer \notin {NoProc, p}
                    applied == supplied /\ found /\ ~locked
                IN  /\ chunks' = chunks
                    /\ {r \in documents' : r.id # d} = {r \in documents : r.id # d}
                    /\ Cardinality(documents') = Cardinality(documents)
                    /\ proc'[p].result =
                            (IF locked THEN "OperationalError: database is locked"
                             ELSE IF applied THEN "True" ELSE "False")
                    /\ ~applied => documents' = documents
                    /\ applied =>
                            \A r \in documents : r.id = d =>
                                \E r2 \in documents' :
                                    OnlySuppliedFields(r, r2, title, path)
      ]_vars

\* C12 witness: a call that supplied the title alone returned True; the row it
\* addressed has the new title and its old path, another document row and the
\* chunk rows are in the store.
C12_Witness ==
    \E p \in Procs :
        /\ proc[p].op = "update_document_metadata"
        /\ proc[p].result = "True"
        /\ \E r, o \in documents :
                /\ r.id # o.id
                /\ r.title = "t" /\ r.path = "ab.txt"
                /\ o.title = "ab.txt" /\ o.path = "ab.txt"
        /\ Len(chunks) = 4

-----------------------------------------------------------------------------
(* The chunker run step by step on bounded inputs *)

ExampleText ==
    <<"a", " ", "b", " ", "c", " ", "d", " ", "e", " ", "f", " ", "g", " ", "h">>

Texts == UNION {[1..k -> Alphabet] : k \in 0..MaxTextLen} \cup {ExampleText}
Sizes == 0..MaxSize
Overlaps == 0..MaxOverlap

StoreIdle ==
    /\ documents = {}
    /\ chunks = <<>>
    /\ writer = NoProc
    /\ wdocuments = {}
    /\ wchunks = <<>>
    /\ proc = [p \in Procs |-> IdleProc]
    /\ tmpfiles = {}
    /\ nextId = 0
    /\ rt = NoRetrieve

InitChunk ==
    /\ \E text \in Texts, size \in Sizes, overlap \in Overlaps :
            ct = ChunkCall(text, size, overlap)
    /\ StoreIdle

StepChunkEntry ==
    /\ ct.pc = "entry"
    /\ ct' = ChunkEntry(ct)
    /\ UNCHANGED storeVars

StepChunkIter ==
    /\ ct.pc = "loop"
    /\ ct.start < ct.n
    /\ ct' = ChunkIter(ct)
    /\ UNCHANGED storeVars

StepChunkReturn ==
    /\ ct.pc = "loop"
    /\ ~(ct.start < ct.n)
    /\ ct' = ChunkReturn(ct)
    /\ UNCHANGED storeVars

NextChunk == StepChunkEntry \/ StepChunkIter \/ StepChunkReturn

SpecChunk == InitChunk /\ [][NextChunk]_vars

\* chunk_text runs to its return: nothing else is scheduled inside the call
SpecChunkFair == SpecChunk /\ WF_vars(NextChunk)

-----------------------------------------------------------------------------
(* Claims about chunk_text *)

\* The 1-based word positions chunk i covers, from the output alone: chunk i
\* starts (i-1)*step words in and holds as many words as it splits into.
ChunkFirst(c, i) == (i - 1) * (c.size - c.overlap_arg) + 1
ChunkLast(c, i) == ChunkFirst(c, i) + Len(Split(c.chunks[i])) - 1

ExampleChunks ==
    << <<"a", " ", "b", " ", "c">>, <<"c", " ", "d", " ", "e">>,
       <<"e", " ", "f", " ", "g">>, <<"g", " ", "h">> >>

\* C1: for window_size > 0 and 0 <= overlap < window_size, the chunks chunk_text
\* returns hold every word of the text at its position (no word between two
\* consecutive windows is skipped), in order, each chunk being the words of its
\* window joined by single spaces, and the last chunk ends at word n; the text
\* "a b c d e f g h" with window 3 and overlap 1 gives "a b c", "c d e",
\* "e f g", "g h".
C1_ChunksCoverText ==
    (ct.pc = "done" /\ ct.size > 0 /\ 0 <= ct.overlap_arg /\ ct.overlap_arg < ct.size) =>
        LET words == Split(ct.text)
            n == Len(words)
            m == Len(ct.chunks)
        IN  /\ (n = 0) = (m = 0)
            /\ \A p \in 1..n : \E i \in 1..m :
                    /\ ChunkFirst(ct, i) <= p
                    /\ p <= ChunkLast(ct, i)
                    /\ Split(ct.chunks[i])[p - ChunkFirst(ct, i) + 1] = words[p]
            /\ \A i \in 1..m :
                    /\ ChunkLast(ct, i) <= n
                    /\ ct.chunks[i] = Join(SubSeq(words, ChunkFirst(ct, i), ChunkLast(ct, i)))
                    /\ i < m => /\ ChunkFirst(ct, i + 1) > ChunkFirst(ct, i)
                                /\ ChunkFirst(ct, i + 1) <= ChunkLast(ct, i) + 1
                                /\ ChunkLast(ct, i) = ChunkFirst(ct, i) + ct.size - 1
            /\ m > 0 => ChunkLast(ct, m) = n
            /\ (ct.text = ExampleText /\ ct.size = 3 /\ ct.overlap_arg = 1) =>
                    ct.chunks = ExampleChunks

\* C1 witness: the example text chunked with window 3, overlap 1 into 4 chunks.
C1_Witness ==
    /\ ct.pc = "done"
    /\ ct.text = ExampleText /\ ct.size = 3 /\ ct.overlap_arg = 1
    /\ Len(ct.chunks) = 4

\* C9: for window_size > 0 and overlap >= window_size, chunk_text raises nothing
\* and returns what it returns for overlap = window_size // 4; the step is >= 1
\* after the clamp, every pass of the loop that does not return moves the window
\* start forward, and the call reaches its return.
C9_ClampedOverlapTerminates ==
    /\ [](ct.size > 0 /\ ct.overlap_arg >= ct.size =>
            /\ ct.pc # "raised"
            /\ ct.pc = "loop" => ct.step >= 1 /\ ct.overlap = ct.size \div 4
            /\ ct.pc = "done" =>
                    ct.chunks = chunk_text(ct.text, ct.size, ct.size \div 4).chunks)
    /\ [][ct.pc = "loop" /\ ct'.pc = "loop" => ct'.start > ct.start]_vars
    /\ <>(ct.pc \in {"done", "raised"})

\* C9 witness: an overlap above the window size, clamped, and several chunks out.
C9_Witness ==
    /\ ct.pc = "done"
    /\ ct.size = 4 /\ ct.overlap_arg = 5 /\ ct.overlap = 1
    /\ Len(ct.chunks) >= 2

====
